---- MODULE Spec2Model ----
(***************************************************************************)
(* Windows Security Log Analyzer: the event normalisation, collection,     *)
(* level filtering and colouring pipeline of models.py, sources.py,        *)
(* app.py and presentation.py.                                             *)
(*                                                                         *)
(* Python str values are sequences of one-character strings, so that       *)
(* strip(), lower(), split(), replace() and the substring test are         *)
(* computed, not assumed.  An Optional[T] is a sequence of at most one T:  *)
(* None is <<>> and a present value x is Some(x).                          *)
(***************************************************************************)
EXTENDS Integers, Sequences, FiniteSets, TLC

VARIABLES
    pc,             \* position of main(): start, load, filter, export, render, summary, done
    args,           \* argparse namespace of main()
    important_only, \* main(): not args.all_events
    event_ids,      \* main(): parse_event_ids(args.event_ids)
    levels,         \* main(): parse_levels(args.levels)
    source,         \* what the platform / log reader / demo file gave to the loader
    loaded,         \* the loader's return value (or the exception it raised)
    events,         \* main(): the events list
    exit_code,      \* main(): return value, None while running
    stdout,         \* what main() has printed / done so far, in order
    calls,          \* the calls main() has made after loading, each with its events argument
    lv_pc,          \* level-function harness: position
    lv_in,          \* level-function harness: the inputs drawn
    lv_out,         \* level-function harness: the results computed
    rd              \* get_raw_events: its arguments, the log, and the locals of its loop

vars == <<pc, args, important_only, event_ids, levels, source, loaded, events,
          exit_code, stdout, calls, lv_pc, lv_in, lv_out, rd>>

main_vars == <<pc, args, important_only, event_ids, levels, source, loaded, events,
               exit_code, stdout, calls>>

lv_vars == <<lv_pc, lv_in, lv_out>>

rd_vars == <<rd>>

None == <<>>

Some(x) == <<x>>

(***************************************************************************)
(* Python str primitives                                                   *)
(***************************************************************************)
UpperChars == <<"A","B","C","D","E","F","G","H","I","J","K","L","M",
                "N","O","P","Q","R","S","T","U","V","W","X","Y","Z">>

LowerChars == <<"a","b","c","d","e","f","g","h","i","j","k","l","m",
                "n","o","p","q","r","s","t","u","v","w","x","y","z">>

Whitespace == {" ", "\t", "\n", "\r"}

LowerChar(c) ==
    IF \E i \in DOMAIN UpperChars : UpperChars[i] = c
    THEN LowerChars[CHOOSE i \in DOMAIN UpperChars : UpperChars[i] = c]
    ELSE c

\* str.lower()
StrLower(s) == [i \in 1..Len(s) |-> LowerChar(s[i])]

RECURSIVE LStrip(_)
LStrip(s) == IF s # <<>> /\ Head(s) \in Whitespace THEN LStrip(Tail(s)) ELSE s

RECURSIVE RStrip(_)
RStrip(s) ==
    IF s # <<>> /\ s[Len(s)] \in Whitespace THEN RStrip(SubSeq(s, 1, Len(s) - 1)) ELSE s

\* str.strip()
StrStrip(s) == RStrip(LStrip(s))

\* sub in s
StrContains(s, sub) ==
    \E i \in 0..(Len(s) - Len(sub)) : SubSeq(s, i + 1, i + Len(sub)) = sub

\* s.replace(old, new), old non-empty: leftmost, non-overlapping
RECURSIVE StrReplace(_, _, _)
StrReplace(s, old, new) ==
    IF Len(s) < Len(old) THEN s
    ELSE IF SubSeq(s, 1, Len(old)) = old
         THEN new \o StrReplace(SubSeq(s, Len(old) + 1, Len(s)), old, new)
         ELSE <<Head(s)>> \o StrReplace(Tail(s), old, new)

\* s.split(sep) for a one-character sep: always at least one piece
RECURSIVE StrSplit(_, _)
StrSplit(s, sep) ==
    IF ~ \E i \in 1..Len(s) : s[i] = sep THEN <<s>>
    ELSE LET k == CHOOSE i \in 1..Len(s) : s[i] = sep /\ \A j \in 1..(i - 1) : s[j] # sep
         IN  <<SubSeq(s, 1, k - 1)>> \o StrSplit(SubSeq(s, k + 1, Len(s)), sep)

\* [p.strip() for p in value.split(",") if p.strip()]
RECURSIVE StripNonEmpty(_)
StripNonEmpty(parts) ==
    IF parts = <<>> THEN <<>>
    ELSE IF StrStrip(Head(parts)) # <<>>
         THEN <<StrStrip(Head(parts))>> \o StripNonEmpty(Tail(parts))
         ELSE StripNonEmpty(Tail(parts))

CsvTokens(value) == StripNonEmpty(StrSplit(value, ","))

(***************************************************************************)
(* models.py: canonical levels                                             *)
(***************************************************************************)
L_debug       == <<"d","e","b","u","g">>
L_verbose     == <<"v","e","r","b","o","s","e">>
L_trace       == <<"t","r","a","c","e">>
L_information == <<"i","n","f","o","r","m","a","t","i","o","n">>
L_info        == <<"i","n","f","o">>
L_warning     == <<"w","a","r","n","i","n","g">>
L_warn        == <<"w","a","r","n">>
L_error       == <<"e","r","r","o","r">>
L_err         == <<"e","r","r">>
L_critical    == <<"c","r","i","t","i","c","a","l">>
L_fatal       == <<"f","a","t","a","l">>

CanonicalLevels == {L_debug, L_info, L_warning, L_error, L_critical}

\* normalize_level_name without the strip()
normalize_level_name_nostrip(level) ==
    LET value == StrLower(level)
    IN  IF value \in {L_debug, L_verbose, L_trace} THEN L_debug
        ELSE IF value \in {L_information, L_info} THEN L_info
        ELSE IF value \in {L_warning, L_warn} THEN L_warning
        ELSE IF value \in {L_error, L_err} THEN L_error
        ELSE IF value \in {L_critical, L_fatal} THEN L_critical
        ELSE L_info

normalize_level_name(level) ==
    LET value == StrLower(StrStrip(level))
    IN  IF value \in {L_debug, L_verbose, L_trace} THEN L_debug
        ELSE IF value \in {L_information, L_info} THEN L_info
        ELSE IF value \in {L_warning, L_warn} THEN L_warning
        ELSE IF value \in {L_error, L_err} THEN L_error
        ELSE IF value \in {L_critical, L_fatal} THEN L_critical
        ELSE L_info

\* parse_levels: None for None / "" / no tokens, else the set of canonical levels
parse_levels(value) ==
    IF value = None \/ value[1] = <<>> THEN None
    ELSE LET parts  == CsvTokens(value[1])
             result == {normalize_level_name(parts[i]) : i \in DOMAIN parts}
         IN  IF result = {} THEN None ELSE Some(result)

(***************************************************************************)
(* models.py: SecurityEvent; app.py: level filter; presentation.py: colour *)
(***************************************************************************)
SecurityEvent(time_created, event_id, level, provider, machine_name, message, category) ==
    [time_created |-> time_created, event_id |-> event_id, level |-> level,
     provider |-> provider, machine_name |-> machine_name, message |-> message,
     category |-> category]

\* the filter comparing the raw lower-cased level instead of the canonical one
RECURSIVE FilterLoopRaw(_, _)
FilterLoopRaw(evs, allowed) ==
    IF evs = <<>> THEN <<>>
    ELSE IF StrLower(Head(evs).level) \in allowed
         THEN <<Head(evs)>> \o FilterLoopRaw(Tail(evs), allowed)
         ELSE FilterLoopRaw(Tail(evs), allowed)

\* filter_events_by_levels: levels is None or Some(set); "not levels" is None or the empty set
RECURSIVE FilterLoop(_, _)
FilterLoop(evs, allowed) ==
    IF evs = <<>> THEN <<>>
    ELSE IF normalize_level_name(Head(evs).level) \in allowed
         THEN <<Head(evs)>> \o FilterLoop(Tail(evs), allowed)
         ELSE FilterLoop(Tail(evs), allowed)

filter_events_by_levels(evs, lvls) ==
    IF lvls = None \/ lvls[1] = {} THEN evs
    ELSE FilterLoop(evs, lvls[1])

\* colour chosen from the raw level string instead of the canonical level
color_for_event_raw(event, use_color) ==
    IF ~use_color THEN ""
    ELSE LET level == StrLower(event.level)
         IN  IF level = L_debug THEN "bright_magenta"
             ELSE IF level = L_info THEN "bright_cyan"
             ELSE IF level = L_warning THEN "bright_yellow"
             ELSE IF level = L_error THEN "bright_red"
             ELSE IF level = L_critical THEN "bright_red"
             ELSE ""

color_for_event(event, use_color) ==
    IF ~use_color THEN ""
    ELSE LET level == normalize_level_name(event.level)
         IN  IF level = L_debug THEN "bright_magenta"
             ELSE IF level = L_info THEN "bright_cyan"
             ELSE IF level = L_warning THEN "bright_yellow"
             ELSE IF level = L_error THEN "bright_red"
             ELSE IF level = L_critical THEN "bright_red"
             ELSE ""

(***************************************************************************)
(* Inputs of the level functions                                           *)
(***************************************************************************)
MaxPad == 1        \* whitespace characters put on each side of a level string

MaxLvEvents == 2   \* events handed to filter_events_by_levels

UpperChar(c) ==
    IF \E i \in DOMAIN LowerChars : LowerChars[i] = c
    THEN UpperChars[CHOOSE i \in DOMAIN LowerChars : LowerChars[i] = c]
    ELSE c

StrUpper(s) == [i \in 1..Len(s) |-> UpperChar(s[i])]

StrCapitalize(s) == [i \in 1..Len(s) |-> IF i = 1 THEN UpperChar(s[i]) ELSE s[i]]

Synonyms == {L_debug, L_verbose, L_trace, L_information, L_info, L_warning, L_warn,
             L_error, L_err, L_critical, L_fatal}

\* strings outside every synonym set: empty, unknown, a near miss, an inner blank
UnknownWords == {<<>>, <<"b","o","g","u","s">>, <<"w","a","r","n","s">>,
                 <<"e","r","r"," ","o","r">>}

Paddings == UNION {[1..n -> {" ", "\t"}] : n \in 0..MaxPad}

LevelStrings ==
    {l \o c \o r : l \in Paddings, r \in Paddings,
                   c \in UNION {{w, StrUpper(w), StrCapitalize(w)} : w \in Synonyms \cup UnknownWords}}

\* the raw level of make_event(level) in the tests
make_event(level) ==
    SecurityEvent(0, 0, level, <<"p">>, <<"m">>, <<"m","s","g">>, "category")

EventLevels == {StrCapitalize(L_information), StrCapitalize(L_warning), StrCapitalize(L_error),
                StrUpper(L_fatal), <<" ">> \o StrUpper(L_warn) \o <<" ">>, <<>>}

LvEventLists == UNION {[1..n -> {make_event(l) : l \in EventLevels}] : n \in 0..MaxLvEvents}

Comma == <<",">>

\* --levels values: absent, empty, separators only, the tests' "INFO, warning,ERROR", ...
LevelsArgs ==
    {None, Some(<<>>), Some(<<" ">> \o Comma \o <<" ">>), Some(Comma),
     Some(StrUpper(L_info) \o Comma \o <<" ">> \o L_warning \o Comma \o StrUpper(L_error)),
     Some(L_warn), Some(Comma \o L_fatal \o Comma \o Comma \o <<" ">> \o StrCapitalize(L_err)),
     Some(<<"b","o","g","u","s">>)}

LvInputs ==
    {[op |-> "normalize", level |-> x] : x \in LevelStrings}
    \cup {[op |-> "filter", value |-> a, events |-> evs] : a \in LevelsArgs, evs \in LvEventLists}
    \cup {[op |-> "color", event |-> make_event(x), other |-> make_event(y), use_color |-> u] :
              x \in LevelStrings, y \in EventLevels, u \in BOOLEAN}

(***************************************************************************)
(* The level functions applied to drawn inputs                             *)
(***************************************************************************)
MainIdle ==
    /\ pc = "idle" /\ args = None /\ important_only = TRUE /\ event_ids = None
    /\ levels = None /\ source = None /\ loaded = None /\ events = <<>>
    /\ exit_code = None /\ stdout = <<>> /\ calls = <<>>

InitLevels == MainIdle /\ lv_pc = "call" /\ lv_in \in LvInputs /\ lv_out = None /\ rd = None

NormalizeLevel ==
    /\ lv_pc = "call" /\ lv_in.op = "normalize"
    /\ lv_out' = Some([level |-> normalize_level_name(lv_in.level)])
    /\ lv_pc' = "once"
    /\ UNCHANGED <<lv_in, main_vars, rd_vars>>

\* the canonical output fed back to normalize_level_name
NormalizeAgain ==
    /\ lv_pc = "once"
    /\ lv_out' = Some([level |-> lv_out[1].level,
                       again |-> normalize_level_name(lv_out[1].level)])
    /\ lv_pc' = "ret"
    /\ UNCHANGED <<lv_in, main_vars, rd_vars>>

\* filter_events_by_levels(events, parse_levels(value))
FilterByLevels ==
    /\ lv_pc = "call" /\ lv_in.op = "filter"
    /\ LET lvls == parse_levels(lv_in.value)
       IN  lv_out' = Some([levels |-> lvls,
                           filtered |-> filter_events_by_levels(lv_in.events, lvls),
                           events |-> lv_in.events])
    /\ lv_pc' = "ret"
    /\ UNCHANGED <<lv_in, main_vars, rd_vars>>

ColorForEvent ==
    /\ lv_pc = "call" /\ lv_in.op = "color"
    /\ lv_out' = Some([style |-> color_for_event(lv_in.event, lv_in.use_color),
                       other_style |-> color_for_event(lv_in.other, lv_in.use_color)])
    /\ lv_pc' = "ret"
    /\ UNCHANGED <<lv_in, main_vars, rd_vars>>

NextLevels == NormalizeLevel \/ NormalizeAgain \/ FilterByLevels \/ ColorForEvent

SpecLevels == InitLevels /\ [][NextLevels]_vars

(***************************************************************************)
(* models.py: rule table, categorize_event, parse_time                     *)
(***************************************************************************)
EVENT_RULES ==
    (4624 :> [category |-> "Logon success", severity |-> "normal"]) @@
    (4625 :> [category |-> "Logon failure", severity |-> "critical"]) @@
    (4634 :> [category |-> "Logoff", severity |-> "normal"]) @@
    (4647 :> [category |-> "Logoff", severity |-> "normal"]) @@
    (4672 :> [category |-> "Privilege assigned", severity |-> "normal"]) @@
    (4688 :> [category |-> "Process created", severity |-> "suspicious"]) @@
    (4689 :> [category |-> "Process exited", severity |-> "info"]) @@
    (4720 :> [category |-> "User account change", severity |-> "suspicious"]) @@
    (4722 :> [category |-> "User account change", severity |-> "suspicious"]) @@
    (4723 :> [category |-> "Password change attempt", severity |-> "suspicious"]) @@
    (4724 :> [category |-> "Password change attempt", severity |-> "suspicious"]) @@
    (4725 :> [category |-> "User account change", severity |-> "suspicious"]) @@
    (4726 :> [category |-> "User account change", severity |-> "suspicious"]) @@
    (4732 :> [category |-> "Group membership change", severity |-> "suspicious"]) @@
    (4733 :> [category |-> "Group membership change", severity |-> "suspicious"]) @@
    (4768 :> [category |-> "Kerberos authentication", severity |-> "info"]) @@
    (4769 :> [category |-> "Kerberos authentication", severity |-> "info"]) @@
    (4770 :> [category |-> "Kerberos authentication", severity |-> "info"]) @@
    (4771 :> [category |-> "Kerberos authentication", severity |-> "info"]) @@
    (4798 :> [category |-> "User enumeration", severity |-> "suspicious"]) @@
    (4799 :> [category |-> "User enumeration", severity |-> "suspicious"])

IMPORTANT_EVENT_IDS == DOMAIN EVENT_RULES

categorize_event(event_id) ==
    IF event_id \in DOMAIN EVENT_RULES THEN EVENT_RULES[event_id].category ELSE "Other"

DigitChars == <<"0","1","2","3","4","5","6","7","8","9">>

IsDigit(c) == \E i \in DOMAIN DigitChars : DigitChars[i] = c

DigitVal(c) == (CHOOSE i \in DOMAIN DigitChars : DigitChars[i] = c) - 1

IsDigits(s) == s # <<>> /\ \A i \in 1..Len(s) : IsDigit(s[i])

RECURSIVE DigitsValue(_)
DigitsValue(s) ==
    IF s = <<>> THEN 0 ELSE DigitsValue(SubSeq(s, 1, Len(s) - 1)) * 10 + DigitVal(s[Len(s)])

\* int(s) for a str: blanks stripped, an optional sign, decimal digits; None is ValueError
IntOfStr(s) ==
    LET t    == StrStrip(s)
        neg  == t # <<>> /\ Head(t) = "-"
        body == IF t # <<>> /\ Head(t) \in {"+", "-"} THEN Tail(t) ELSE t
    IN  IF IsDigits(body)
        THEN Some(IF neg THEN 0 - DigitsValue(body) ELSE DigitsValue(body))
        ELSE None

\* a datetime: aware (it carries a UTC offset) or naive; t counts seconds from
\* 1970-01-01T00:00:00, of the UTC instant when aware and of the wall clock when naive
DateTime(aware, t) == [aware |-> aware, t |-> t]

\* datetime.fromtimestamp(0): the epoch as a naive local time (local zone taken as UTC)
Epoch == DateTime(FALSE, 0)

IsLeap(y) == (y % 4 = 0 /\ y % 100 # 0) \/ y % 400 = 0

DaysInMonth(y, m) ==
    IF m = 2 THEN (IF IsLeap(y) THEN 29 ELSE 28)
    ELSE IF m \in {4, 6, 9, 11} THEN 30 ELSE 31

\* days from 1970-01-01 to the civil date y-m-d
DaysFromCivil(y, m, d) ==
    LET yy  == IF m <= 2 THEN y - 1 ELSE y
        era == yy \div 400
        yoe == yy - era * 400
        mp  == (m + 9) % 12
        doy == (153 * mp + 2) \div 5 + d - 1
        doe == yoe * 365 + yoe \div 4 - yoe \div 100 + doy
    IN  era * 146097 + doe - 719468

\* "YYYY-MM-DD"
IsoDateOK(s) ==
    /\ Len(s) = 10 /\ s[5] = "-" /\ s[8] = "-"
    /\ IsDigits(SubSeq(s, 1, 4)) /\ IsDigits(SubSeq(s, 6, 7)) /\ IsDigits(SubSeq(s, 9, 10))
    /\ LET y == DigitsValue(SubSeq(s, 1, 4))
           m == DigitsValue(SubSeq(s, 6, 7))
           d == DigitsValue(SubSeq(s, 9, 10))
       IN  y >= 1 /\ m \in 1..12 /\ d >= 1 /\ d <= DaysInMonth(y, m)

\* "HH:MM:SS" (also the hours and minutes of "+HH:MM" when n = 5)
IsoClockOK(s, n) ==
    /\ Len(s) = n /\ s[3] = ":" /\ (n = 8 => s[6] = ":")
    /\ IsDigits(SubSeq(s, 1, 2)) /\ IsDigits(SubSeq(s, 4, 5))
    /\ (n = 8 => IsDigits(SubSeq(s, 7, 8)))
    /\ DigitsValue(SubSeq(s, 1, 2)) <= 23 /\ DigitsValue(SubSeq(s, 4, 5)) <= 59
    /\ (n = 8 => DigitsValue(SubSeq(s, 7, 8)) <= 59)

IsoSeconds(s) ==
    DaysFromCivil(DigitsValue(SubSeq(s, 1, 4)), DigitsValue(SubSeq(s, 6, 7)),
                  DigitsValue(SubSeq(s, 9, 10))) * 86400
    + (IF Len(s) >= 19
       THEN DigitsValue(SubSeq(s, 12, 13)) * 3600 + DigitsValue(SubSeq(s, 15, 16)) * 60
            + DigitsValue(SubSeq(s, 18, 19))
       ELSE 0)

IsoOffsetSeconds(s) ==
    (IF s[20] = "-" THEN 0 - 1 ELSE 1)
    * (DigitsValue(SubSeq(s, 21, 22)) * 3600 + DigitsValue(SubSeq(s, 24, 25)) * 60)

\* datetime.fromisoformat for "YYYY-MM-DD", "YYYY-MM-DD?HH:MM:SS" and
\* "YYYY-MM-DD?HH:MM:SS(+|-)HH:MM"; None is ValueError
fromisoformat(s) ==
    IF Len(s) = 10 /\ IsoDateOK(s) THEN Some(DateTime(FALSE, IsoSeconds(s)))
    ELSE IF Len(s) = 19 /\ IsoDateOK(SubSeq(s, 1, 10)) /\ IsoClockOK(SubSeq(s, 12, 19), 8)
         THEN Some(DateTime(FALSE, IsoSeconds(s)))
    ELSE IF /\ Len(s) = 25 /\ IsoDateOK(SubSeq(s, 1, 10)) /\ IsoClockOK(SubSeq(s, 12, 19), 8)
            /\ s[20] \in {"+", "-"} /\ IsoClockOK(SubSeq(s, 21, 25), 5)
         THEN Some(DateTime(TRUE, IsoSeconds(s) - IsoOffsetSeconds(s)))
    ELSE None

UtcSuffix == <<"+","0","0",":","0","0">>

parse_time(value) ==
    IF value = None \/ value[1] = <<>> THEN Epoch
    ELSE LET parsed == fromisoformat(StrReplace(value[1], <<"Z">>, UtcSuffix))
         IN  IF parsed = None THEN Epoch ELSE parsed[1]

(***************************************************************************)
(* list.sort(key=lambda e: e.time_created, reverse=True)                   *)
(***************************************************************************)
\* comparing a naive with an aware datetime raises TypeError; a sort of two or more
\* elements compares across every split of the list, so it raises when both kinds occur
SortRaises(evs) ==
    \E i, j \in DOMAIN evs : evs[i].time_created.aware # evs[j].time_created.aware

\* an insertion that puts e before elements of equal key: descending, not stable
RECURSIVE InsertDesc_Unstable(_, _)
InsertDesc_Unstable(sorted, e) ==
    IF sorted = <<>> THEN <<e>>
    ELSE IF Head(sorted).time_created.t > e.time_created.t
         THEN <<Head(sorted)>> \o InsertDesc_Unstable(Tail(sorted), e)
         ELSE <<e>> \o sorted

\* e goes behind every element whose key is >= its own: descending and stable
RECURSIVE InsertDesc(_, _)
InsertDesc(sorted, e) ==
    IF sorted = <<>> THEN <<e>>
    ELSE IF Head(sorted).time_created.t >= e.time_created.t
         THEN <<Head(sorted)>> \o InsertDesc(Tail(sorted), e)
         ELSE <<e>> \o sorted

RECURSIVE SortFrom(_, _)
SortFrom(sorted, rest) ==
    IF rest = <<>> THEN sorted ELSE SortFrom(InsertDesc(sorted, Head(rest)), Tail(rest))

SortByTimeDesc(evs) == SortFrom(<<>>, evs)

(***************************************************************************)
(* sources.py: normalize_event, collect_events, load_events_from_demo_xml  *)
(***************************************************************************)
\* values of a raw record (a loosely typed dict): str, int, dict or None
PyStr(s) == [t |-> "str", v |-> s]

PyInt(n) == [t |-> "int", v |-> n]

\* a dict of which only .get("DateTime") is read: dt is that Optional str
PyDict(dt) == [t |-> "dict", v |-> dt]

PyNone == [t |-> "NoneType", v |-> <<>>]

\* raw.get(key)
Get(raw, key) == IF key \in DOMAIN raw THEN raw[key] ELSE PyNone

\* int(x) that accepts only values that are already int
IntOrNone_IntOnly(x) == IF x.t = "int" THEN Some(x.v) ELSE None

\* int(x) under "except (TypeError, ValueError)": None when either is raised
IntOrNone(x) ==
    IF x.t = "int" THEN Some(x.v)
    ELSE IF x.t = "str" THEN IntOfStr(x.v)
    ELSE None

\* str(x or "") for a str or None
StrOrEmpty(x) == IF x.t = "str" THEN x.v ELSE <<>>

CRLF == <<"\r","\n">>

LF == <<"\n">>

SP == <<" ">>

\* normalize_event: None when the Id does not parse, else Some(SecurityEvent)
normalize_event(raw) ==
    LET id == IntOrNone(Get(raw, "Id"))
        time_created_value == Get(raw, "TimeCreated")
        time_created_raw ==
            IF time_created_value.t = "str" THEN Some(time_created_value.v)
            ELSE IF time_created_value.t = "dict" THEN time_created_value.v
            ELSE None
    IN  IF id = None THEN None
        ELSE Some(SecurityEvent(
                 parse_time(time_created_raw),
                 id[1],
                 StrOrEmpty(Get(raw, "LevelDisplayName")),
                 StrOrEmpty(Get(raw, "ProviderName")),
                 StrOrEmpty(Get(raw, "MachineName")),
                 StrReplace(StrReplace(StrOrEmpty(Get(raw, "Message")), CRLF, SP), LF, SP),
                 categorize_event(id[1])))

\* a loader's outcome: the value returned or the exception raised, and built, the
\* events list as the loop left it before events.sort()
Return(v, built) == [ok |-> TRUE, exc |-> "", value |-> v, built |-> built]

Raise(e, built) == [ok |-> FALSE, exc |-> e, value |-> <<>>, built |-> built]

\* the substring collect_events looks for in the lower-cased message
SystemLogonNeedle == <<"s","-","1","-","5","-","1","8"," ","s","y","s","t","e","m"," ","n","t"," ","a","u","t","h","o","r","i","t","y">>

\* ids_filter that forgets the explicit ids
IdsFilter_NoExplicit(imp_only, ids) == IF imp_only THEN Some(IMPORTANT_EVENT_IDS) ELSE None

\* ids_filter of collect_events: None, or Some(set of ids)
IdsFilter(imp_only, ids) ==
    IF imp_only /\ ids # None /\ ids[1] # <<>> THEN Some({ids[1][i] : i \in DOMAIN ids[1]})
    ELSE IF imp_only THEN Some(IMPORTANT_EVENT_IDS)
    ELSE None

\* the suppression rule without .lower()
HiddenSystemLogon_CaseSensitive(e, hide_system_logons) ==
    /\ hide_system_logons /\ e.event_id = 4624
    /\ StrContains(e.message, SystemLogonNeedle)

\* is the normalized event dropped by the suppression rule
HiddenSystemLogon(e, hide_system_logons) ==
    /\ hide_system_logons /\ e.event_id = 4624
    /\ StrContains(StrLower(e.message), SystemLogonNeedle)

\* the loop of collect_events over raw_events
RECURSIVE CollectLoop(_, _, _)
CollectLoop(raw_events, ids_filter, hide_system_logons) ==
    IF raw_events = <<>> THEN <<>>
    ELSE LET normalized == normalize_event(Head(raw_events))
             rest == CollectLoop(Tail(raw_events), ids_filter, hide_system_logons)
         IN  IF normalized = None THEN rest
             ELSE IF HiddenSystemLogon(normalized[1], hide_system_logons) THEN rest
             ELSE IF ids_filter # None /\ normalized[1].event_id \notin ids_filter[1] THEN rest
             ELSE <<normalized[1]>> \o rest

\* events.sort(...); return events
SortAndReturn(evs) ==
    IF SortRaises(evs) THEN Raise("TypeError", evs) ELSE Return(SortByTimeDesc(evs), evs)

\* collect_events; src is the platform, the pywin32 driver and what get_raw_events reads
collect_events(src, imp_only, ids, hide_system_logons) ==
    IF ~src.windows THEN Raise("RuntimeError", <<>>)
    ELSE IF ~src.driver THEN Raise("RuntimeError", <<>>)
    ELSE SortAndReturn(CollectLoop(src.raw_events, IdsFilter(imp_only, ids), hide_system_logons))

\* element.findtext(tag): None when the child is absent
FindText(element, tag) == IF tag \in DOMAIN element THEN Some(element[tag]) ELSE None

\* findtext(tag) or ""
TextOrEmpty(element, tag) == IF tag \in DOMAIN element THEN element[tag] ELSE <<>>

\* the loop of load_events_from_demo_xml over root.findall("Event")
RECURSIVE DemoLoop(_)
DemoLoop(elements) ==
    IF elements = <<>> THEN <<>>
    ELSE LET element == Head(elements)
             event_id_text == FindText(element, "Id")
             event_id == IF event_id_text = None THEN None ELSE IntOfStr(event_id_text[1])
             rest == DemoLoop(Tail(elements))
         IN  IF event_id = None THEN rest
             ELSE <<SecurityEvent(
                      parse_time(FindText(element, "TimeCreated")),
                      event_id[1],
                      TextOrEmpty(element, "Level"),
                      TextOrEmpty(element, "Provider"),
                      TextOrEmpty(element, "MachineName"),
                      TextOrEmpty(element, "Message"),
                      categorize_event(event_id[1]))>> \o rest

\* load_events_from_demo_xml; ET.parse raises ParseError on a malformed document
load_events_from_demo_xml(doc) ==
    IF ~doc.well_formed THEN Raise("ParseError", <<>>)
    ELSE SortAndReturn(DemoLoop(doc.elements))

\* load_events_for_demo
load_events_for_demo(src) ==
    IF ~src.demo_exists THEN Raise("FileNotFoundError", <<>>)
    ELSE load_events_from_demo_xml(src)

\* load_events_for_live
load_events_for_live(src, imp_only, ids, hide_system_logons) ==
    collect_events(src, imp_only, ids, hide_system_logons)

\* parse_event_ids: None, or Some(list of ints)
RECURSIVE IntsOf(_)
IntsOf(parts) ==
    IF parts = <<>> THEN <<>>
    ELSE IF IntOfStr(Head(parts)) = None THEN IntsOf(Tail(parts))
         ELSE <<IntOfStr(Head(parts))[1]>> \o IntsOf(Tail(parts))

\* parse_event_ids ending in "return result": an empty list instead of None
parse_event_ids_KeepEmpty(value) ==
    IF value = None \/ value[1] = <<>> THEN None
    ELSE Some(IntsOf(CsvTokens(value[1])))

parse_event_ids(value) ==
    IF value = None \/ value[1] = <<>> THEN None
    ELSE LET result == IntsOf(CsvTokens(value[1]))
         IN  IF result = <<>> THEN None ELSE Some(result)

(***************************************************************************)
(* Inputs of main(): command lines, raw records, demo documents            *)
(***************************************************************************)
MaxBatch == 2      \* raw records (or demo elements) in one source

T_0900 == <<"2","0","2","4","-","0","1","-","0","1","T","0","9",":","0","0",":","0","0">>

T_1000 == <<"2","0","2","4","-","0","1","-","0","1","T","1","0",":","0","0",":","0","0">>

T_1100 == <<"2","0","2","4","-","0","1","-","0","1","T","1","1",":","0","0",":","0","0">>

\* 4624's string inserts joined by blanks: TargetUserSid TargetUserName TargetDomainName
SystemLogonMessage == <<"S","-","1","-","5","-","1","8"," ","S","Y","S","T","E","M"," ","N","T"," ","A","U","T","H","O","R","I","T","Y">>

\* the account written DOMAIN\user
SystemAccountMessage == <<"S","-","1","-","5","-","1","8"," ","N","T"," ","A","U","T","H","O","R","I","T","Y","\\","S","Y","S","T","E","M">>

M_Information == StrCapitalize(L_information)

M_Warning == StrCapitalize(L_warning)

\* a Local System logon (4624), aware timestamp
R_SystemLogon ==
    [Id |-> PyInt(4624), TimeCreated |-> PyStr(T_1000 \o UtcSuffix),
     LevelDisplayName |-> PyStr(M_Information), ProviderName |-> PyStr(<<"S">>),
     MachineName |-> PyStr(<<"P","C">>), Message |-> PyStr(SystemLogonMessage)]

\* a logon at the same instant whose message names the account DOMAIN\user
R_AccountLogon ==
    [Id |-> PyInt(4624), TimeCreated |-> PyStr(T_1000 \o <<"Z">>),
     LevelDisplayName |-> PyStr(M_Information), ProviderName |-> PyStr(<<"S">>),
     MachineName |-> PyStr(<<"P","C">>), Message |-> PyStr(SystemAccountMessage)]

\* a failed logon (4625) carrying the Local System text in lower case, later
R_LogonFailure ==
    [Id |-> PyInt(4625), TimeCreated |-> PyStr(T_1100 \o <<"Z">>),
     LevelDisplayName |-> PyStr(M_Warning), ProviderName |-> PyStr(<<"S">>),
     MachineName |-> PyStr(<<"P","C">>), Message |-> PyStr(StrLower(SystemLogonMessage))]

\* a process creation: str id, nested time without offset, message with newlines
R_Process ==
    [Id |-> PyStr(<<"4","6","8","8">>), TimeCreated |-> PyDict(Some(T_0900)),
     LevelDisplayName |-> PyStr(M_Information), ProviderName |-> PyNone,
     MachineName |-> PyStr(<<"P","C">>), Message |-> PyStr(<<"a","\r","\n","b","\n","c">>)]

\* an id without a rule, garbage timestamp, other fields missing or None
R_LogCleared ==
    [Id |-> PyInt(1102), TimeCreated |-> PyStr(<<"n","/","a">>), Message |-> PyNone]

\* no Id at all
R_NoId ==
    [TimeCreated |-> PyStr(T_1000 \o <<"Z">>), LevelDisplayName |-> PyStr(M_Warning)]

\* a non-numeric Id
R_BadId ==
    [Id |-> PyStr(<<"a","b","c">>), TimeCreated |-> PyStr(T_1000),
     LevelDisplayName |-> PyStr(M_Warning), Message |-> PyStr(<<"x">>)]

RawRecords ==
    {R_SystemLogon, R_AccountLogon, R_LogonFailure, R_Process, R_LogCleared, R_NoId, R_BadId}

\* <Event> elements of the demo document: child tag -> text
E_Process ==
    [Id |-> <<"4","6","8","8">>, TimeCreated |-> T_1000, Level |-> M_Information,
     Provider |-> <<"S">>, MachineName |-> <<"P","C">>, Message |-> <<"c","m","d">>]

E_ProcessExit ==
    [Id |-> <<"4","6","8","9">>, TimeCreated |-> T_1000, Level |-> M_Information,
     Provider |-> <<"S">>, MachineName |-> <<"P","C">>, Message |-> <<"c","m","d">>]

E_SystemLogon ==
    [Id |-> <<"4","6","2","4">>, TimeCreated |-> T_0900, Level |-> M_Information,
     Provider |-> <<"S">>, MachineName |-> <<"P","C">>, Message |-> SystemLogonMessage]

E_LogonFailure ==
    [Id |-> <<"4","6","2","5">>, TimeCreated |-> T_1000 \o <<"Z">>, Level |-> M_Warning,
     Message |-> <<"a","\n","b">>]

E_LogCleared == [Id |-> <<" ","1","1","0","2">>, Level |-> M_Warning]

E_NoId == [TimeCreated |-> T_1100, Message |-> <<"x">>]

E_BadId == [Id |-> <<"4","6","2","4",".","0">>, TimeCreated |-> T_1100]

DemoElements ==
    {E_Process, E_ProcessExit, E_SystemLogon, E_LogonFailure, E_LogCleared, E_NoId, E_BadId}

Batches(S) == UNION {[1..n -> S] : n \in 0..MaxBatch}

\* what the machine offers a live run
LiveSources ==
    {[windows |-> FALSE, driver |-> d, raw_events |-> <<>>] : d \in BOOLEAN}
    \cup {[windows |-> TRUE, driver |-> FALSE, raw_events |-> <<>>]}
    \cup {[windows |-> TRUE, driver |-> TRUE, raw_events |-> b] : b \in Batches(RawRecords)}

\* what demo/demo_incident.xml holds
DemoSources ==
    {[demo_exists |-> FALSE, well_formed |-> FALSE, elements |-> <<>>],
     [demo_exists |-> TRUE, well_formed |-> FALSE, elements |-> <<>>]}
    \cup {[demo_exists |-> TRUE, well_formed |-> TRUE, elements |-> b] : b \in Batches(DemoElements)}

EventIdsArgs == {None, Some(<<"4","6","2","5">>), Some(<<"x",","," ",",">>),
                 Some(<<"4","6","2","5",",","x">>)}

MainLevelsArgs == {None, Some(L_warn)}

CsvArgs == {None, Some(<<"o",".","c","s","v">>)}

DemoCsv == <<"d","e","m","o",".","c","s","v">>

ArgvSpace ==
    [demo : BOOLEAN, all_events : BOOLEAN, event_ids : EventIdsArgs, levels : MainLevelsArgs,
     csv_output : CsvArgs, no_ui : BOOLEAN, hide_system_logons : BOOLEAN]

(***************************************************************************)
(* app.py: main()                                                          *)
(***************************************************************************)
Init ==
    /\ pc = "start" /\ args = None /\ important_only = TRUE /\ event_ids = None
    /\ levels = None /\ source = None /\ loaded = None /\ events = <<>>
    /\ exit_code = None /\ stdout = <<>> /\ calls = <<>>
    /\ lv_pc = "idle" /\ lv_in = None /\ lv_out = None /\ rd = None

\* parse_args, important_only, parse_event_ids, parse_levels, the banner
ParseArgs ==
    /\ pc = "start"
    /\ \E argv \in ArgvSpace :
          /\ args' = Some(argv)
          /\ important_only' = ~argv.all_events
          /\ event_ids' = parse_event_ids(argv.event_ids)
          /\ levels' = parse_levels(argv.levels)
    /\ stdout' = Append(stdout, "banner")
    /\ pc' = "load"
    /\ UNCHANGED <<source, loaded, events, exit_code, calls, lv_vars, rd_vars>>

\* an except clause that reports and falls through to the rest of main
Failed_FallThrough(result) ==
    /\ stdout' = stdout \o <<"collect_error">>
    /\ exit_code' = exit_code
    /\ events' = events
    /\ pc' = "filter"

\* the two except clauses of main: report once and return 1
Failed(result) ==
    /\ stdout' = stdout \o <<IF result.exc = "FileNotFoundError" THEN "not_found" ELSE "collect_error">>
    /\ exit_code' = Some(1)
    /\ events' = events
    /\ pc' = "done"

\* the --demo branch: load_events_for_demo(), csv_output defaulted to demo/demo.csv
LoadDemo ==
    /\ pc = "load" /\ args[1].demo
    /\ \E src \in DemoSources :
          LET result == load_events_for_demo(src)
          IN  /\ source' = Some(src)
              /\ loaded' = Some(result)
              /\ IF result.ok
                 THEN /\ events' = result.value
                      /\ args' = IF args[1].csv_output = None
                                 THEN Some([args[1] EXCEPT !.csv_output = Some(DemoCsv)])
                                 ELSE args
                      /\ stdout' = Append(stdout, "loading_demo")
                      /\ exit_code' = exit_code
                      /\ pc' = "filter"
                 ELSE /\ Failed(result)
                      /\ args' = args
    /\ UNCHANGED <<important_only, event_ids, levels, calls, lv_vars, rd_vars>>

\* the live branch: load_events_for_live(...)
LoadLive ==
    /\ pc = "load" /\ ~args[1].demo
    /\ \E src \in LiveSources :
          LET result == load_events_for_live(src, important_only, event_ids,
                                             args[1].hide_system_logons)
          IN  /\ source' = Some(src)
              /\ loaded' = Some(result)
              /\ IF result.ok
                 THEN /\ events' = result.value
                      /\ stdout' = Append(stdout, "collecting")
                      /\ exit_code' = exit_code
                      /\ pc' = "filter"
                 ELSE Failed(result)
    /\ UNCHANGED <<args, important_only, event_ids, levels, calls, lv_vars, rd_vars>>

\* events = filter_events_by_levels(events, levels) and the count message
FilterLevels ==
    /\ pc = "filter"
    /\ LET filtered == filter_events_by_levels(events, levels)
       IN  /\ events' = filtered
           /\ stdout' = stdout \o <<"level_filter", IF filtered = <<>> THEN "no_events" ELSE "collected">>
    /\ calls' = Append(calls, [fn |-> "filter_events_by_levels", events |-> events])
    /\ pc' = "export"
    /\ UNCHANGED <<args, important_only, event_ids, levels, source, loaded, exit_code, lv_vars, rd_vars>>

\* an export whose failure is not caught: main ends with exit code 1
ExportCsv_Abort ==
    /\ pc = "export"
    /\ calls' = Append(calls, [fn |-> "export_events_if_requested", events |-> events])
    /\ IF args[1].csv_output = None \/ args[1].csv_output[1] = <<>>
       THEN stdout' = stdout /\ pc' = "render" /\ exit_code' = exit_code
       ELSE \E io_ok \in BOOLEAN :
               /\ stdout' = IF io_ok THEN Append(stdout, "exported") ELSE stdout
               /\ pc' = IF io_ok THEN "render" ELSE "done"
               /\ exit_code' = IF io_ok THEN exit_code ELSE Some(1)
    /\ UNCHANGED <<args, important_only, event_ids, levels, source, loaded, events,
                   lv_vars, rd_vars>>

\* export_events_if_requested under try/except: open() may fail
ExportCsv ==
    /\ pc = "export"
    /\ calls' = Append(calls, [fn |-> "export_events_if_requested", events |-> events])
    /\ IF args[1].csv_output = None \/ args[1].csv_output[1] = <<>>
       THEN stdout' = stdout
       ELSE \E io_ok \in BOOLEAN :
               stdout' = Append(stdout, IF io_ok THEN "exported" ELSE "export_failed")
    /\ pc' = "render"
    /\ UNCHANGED <<args, important_only, event_ids, levels, source, loaded, events, exit_code,
                   lv_vars, rd_vars>>

\* render_events_if_requested(events, show_ui=not args.no_ui, vertical=True, ...)
Render ==
    /\ pc = "render"
    /\ stdout' = IF ~args[1].no_ui /\ events # <<>> THEN Append(stdout, "render") ELSE stdout
    /\ calls' = Append(calls, [fn |-> "render_events_if_requested", events |-> events])
    /\ pc' = "summary"
    /\ UNCHANGED <<args, important_only, event_ids, levels, source, loaded, events, exit_code,
                   lv_vars, rd_vars>>

\* print_summary(events); return 0
Summary ==
    /\ pc = "summary"
    /\ stdout' = IF events # <<>> THEN Append(stdout, "summary") ELSE stdout
    /\ calls' = Append(calls, [fn |-> "print_summary", events |-> events])
    /\ exit_code' = Some(0)
    /\ pc' = "done"
    /\ UNCHANGED <<args, important_only, event_ids, levels, source, loaded, events, lv_vars, rd_vars>>

Next == ParseArgs \/ LoadDemo \/ LoadLive \/ FilterLevels \/ ExportCsv \/ Render \/ Summary

Spec == Init /\ [][Next]_vars

(***************************************************************************)
(* sources.py: get_raw_events, the loop over win32evtlog.ReadEventLog      *)
(***************************************************************************)
MaxEvents == 3     \* largest --max-events

MaxChunks == 2     \* non-empty chunks ReadEventLog returns before the empty one

MaxChunkLen == 2   \* records in one chunk

\* record.EventID & 0xFFFF for a non-negative EventID
LowWord(n) == n % 65536

\* the chain of EventType tests
LevelOfEventType(level_type) ==
    IF level_type = "EVENTLOG_ERROR_TYPE" THEN StrCapitalize(L_error)
    ELSE IF level_type = "EVENTLOG_WARNING_TYPE" THEN M_Warning
    ELSE IF level_type = "EVENTLOG_INFORMATION_TYPE" THEN M_Information
    ELSE IF level_type = "EVENTLOG_AUDIT_FAILURE" THEN M_Warning
    ELSE IF level_type = "EVENTLOG_AUDIT_SUCCESS" THEN M_Information
    ELSE M_Information

\* " ".join(inserts)
RECURSIVE JoinBlank(_)
JoinBlank(inserts) ==
    IF inserts = <<>> THEN <<>>
    ELSE IF Len(inserts) = 1 THEN Head(inserts)
    ELSE Head(inserts) \o SP \o JoinBlank(Tail(inserts))

Pad2(n) == <<DigitChars[((n \div 10) % 10) + 1], DigitChars[(n % 10) + 1]>>

Pad4(n) == Pad2(n \div 100) \o Pad2(n % 100)

\* datetime.isoformat() of a time without microseconds; "+00:00" when it carries UTC
IsoFormat(tm, tz_aware) ==
    Pad4(tm.year) \o <<"-">> \o Pad2(tm.month) \o <<"-">> \o Pad2(tm.day) \o <<"T">>
    \o Pad2(tm.hour) \o <<":">> \o Pad2(tm.minute) \o <<":">> \o Pad2(tm.second)
    \o (IF tz_aware THEN UtcSuffix ELSE <<>>)

\* the dict get_raw_events appends for one record; Optional fields are "x or default"
RawOfRecord(record, tz_aware) ==
    [TimeCreated |-> PyStr(IsoFormat(record.TimeGenerated, tz_aware)),
     Id |-> PyInt(LowWord(record.EventID)),
     LevelDisplayName |-> PyStr(LevelOfEventType(record.EventType)),
     ProviderName |-> PyStr(IF record.SourceName = None THEN <<>> ELSE record.SourceName[1]),
     MachineName |-> PyStr(IF record.ComputerName = None THEN <<>> ELSE record.ComputerName[1]),
     Message |-> PyStr(JoinBlank(IF record.StringInserts = None THEN <<>>
                                 ELSE record.StringInserts[1]))]

\* the for loop over one chunk that forgets "if read_total >= max_events: break"
RECURSIVE TakeFromChunk_NoBreak(_, _, _, _)
TakeFromChunk_NoBreak(records, read_total, max_events, tz_aware) ==
    IF records = <<>> THEN <<>>
    ELSE <<RawOfRecord(Head(records), tz_aware)>>
         \o TakeFromChunk_NoBreak(Tail(records), read_total + 1, max_events, tz_aware)

\* the for loop over one chunk: the dicts appended, until read_total reaches max_events
RECURSIVE TakeFromChunk(_, _, _, _)
TakeFromChunk(records, read_total, max_events, tz_aware) ==
    IF records = <<>> THEN <<>>
    ELSE <<RawOfRecord(Head(records), tz_aware)>>
         \o (IF read_total + 1 >= max_events THEN <<>>
             ELSE TakeFromChunk(Tail(records), read_total + 1, max_events, tz_aware))

\* win32 event records
W_SystemLogon ==
    [EventID |-> 4624, EventType |-> "EVENTLOG_AUDIT_SUCCESS",
     SourceName |-> Some(<<"S">>), ComputerName |-> Some(<<"P","C">>),
     StringInserts |-> Some(<<<<"S","-","1","-","5","-","1","8">>, <<"S","Y","S","T","E","M">>, <<"N","T"," ","A","U","T","H","O","R","I","T","Y">>>>),
     TimeGenerated |-> [year |-> 2024, month |-> 1, day |-> 1, hour |-> 10, minute |-> 0,
                        second |-> 0]]

\* a failed logon whose EventID has bits above the low word, no inserts, no names
W_LogonFailure ==
    [EventID |-> 65536 + 4625, EventType |-> "EVENTLOG_AUDIT_FAILURE",
     SourceName |-> None, ComputerName |-> None, StringInserts |-> None,
     TimeGenerated |-> [year |-> 2024, month |-> 1, day |-> 1, hour |-> 9, minute |-> 5,
                        second |-> 7]]

WinRecords == {W_SystemLogon, W_LogonFailure}

Chunks == UNION {[1..n -> WinRecords] : n \in 1..MaxChunkLen}

\* what successive ReadEventLog calls return; after the last chunk, the empty list
Logs == UNION {[1..n -> Chunks] : n \in 0..MaxChunks}

ReaderInputs ==
    {[windows |-> w, driver |-> d, tz_aware |-> a, max_events |-> m, pending |-> lg] :
        w \in BOOLEAN, d \in BOOLEAN, a \in BOOLEAN, m \in 0..MaxEvents, lg \in Logs}

InitReader ==
    /\ MainIdle /\ lv_pc = "idle" /\ lv_in = None /\ lv_out = None
    /\ \E inp \in ReaderInputs :
          /\ (~inp.windows \/ ~inp.driver) => (inp.pending = <<>> /\ ~inp.tz_aware)
          /\ rd = [pc |-> "open", windows |-> inp.windows, driver |-> inp.driver,
                   tz_aware |-> inp.tz_aware, max_events |-> inp.max_events,
                   log |-> inp.pending, pending |-> inp.pending, events |-> <<>>, read_total |-> 0, reads |-> 0,
                   handle_open |-> FALSE, exc |-> "", out |-> None]

\* the platform and driver checks, OpenEventLog
RdOpen ==
    /\ rd.pc = "open"
    /\ rd' = IF ~rd.windows \/ ~rd.driver
             THEN [rd EXCEPT !.pc = "raised", !.exc = "RuntimeError"]
             ELSE [rd EXCEPT !.pc = "loop", !.handle_open = TRUE]
    /\ UNCHANGED <<main_vars, lv_vars>>

\* one turn of "while read_total < max_events": a ReadEventLog call and its for loop
RdRead ==
    /\ rd.pc = "loop" /\ rd.read_total < rd.max_events
    /\ LET records == IF rd.pending = <<>> THEN <<>> ELSE Head(rd.pending)
           taken   == TakeFromChunk(records, rd.read_total, rd.max_events, rd.tz_aware)
       IN  rd' = IF records = <<>>
                 THEN [rd EXCEPT !.pc = "break", !.reads = @ + 1]
                 ELSE [rd EXCEPT !.reads = @ + 1, !.pending = Tail(@),
                                 !.events = @ \o taken, !.read_total = @ + Len(taken)]
    /\ UNCHANGED <<main_vars, lv_vars>>

\* the loop is left: finally CloseEventLog, return events
RdReturn ==
    /\ rd.pc = "break" \/ (rd.pc = "loop" /\ ~(rd.read_total < rd.max_events))
    /\ rd' = [rd EXCEPT !.pc = "returned", !.handle_open = FALSE]
    /\ UNCHANGED <<main_vars, lv_vars>>

\* collect_events goes on with the returned raw_events
RdCollect ==
    /\ rd.pc = "returned"
    /\ \E imp_only \in BOOLEAN, hide \in BOOLEAN :
          rd' = [rd EXCEPT !.pc = "collected",
                           !.out = Some(SortAndReturn(
                                      CollectLoop(rd.events, IdsFilter(imp_only, None), hide)))]
    /\ UNCHANGED <<main_vars, lv_vars>>

NextReader == RdOpen \/ RdRead \/ RdReturn \/ RdCollect

SpecReader == InitReader /\ [][NextReader]_vars

(***************************************************************************)
(* Properties                                                              *)
(***************************************************************************)
\* a run of main that took the live branch / the demo branch and came back from the loader
LiveRun == loaded # None /\ ~args[1].demo

DemoRun == loaded # None /\ args[1].demo

LiveAvailable == LiveRun /\ source[1].windows /\ source[1].driver

DemoAvailable == DemoRun /\ source[1].demo_exists /\ source[1].well_formed

\* the integer a raw record's Id denotes, None when it denotes none
RawIdOf(raw) ==
    IF raw = R_Process THEN Some(4688)
    ELSE IF raw \in {R_SystemLogon, R_AccountLogon} THEN Some(4624)
    ELSE IF raw = R_LogonFailure THEN Some(4625)
    ELSE IF raw = R_LogCleared THEN Some(1102)
    ELSE None

\* the ids --event-ids names on the command line
ExplicitIds ==
    IF args[1].event_ids \in {Some(<<"4","6","2","5">>), Some(<<"4","6","2","5",",","x">>)}
    THEN {4625} ELSE {}

\* does the ID filter requested on the command line admit id
IdAdmitted(id) ==
    \/ args[1].all_events
    \/ (IF ExplicitIds # {} THEN id \in ExplicitIds ELSE id \in DOMAIN EVENT_RULES)

Count(seq, P(_)) == Cardinality({i \in DOMAIN seq : P(seq[i])})

\* C1: collect_events applies the ID filter by precedence: important_only with explicit
\* ids keeps only ids of the explicit set; important_only without explicit ids keeps only
\* Rule Table ids; without important_only no event is removed because of its id.
C1_IdFilterPrecedence ==
    (LiveRun /\ loaded[1].ok) =>
        LET out == loaded[1].value
            raw == source[1].raw_events
            ids == {out[i].event_id : i \in DOMAIN out}
            Stays(r) == RawIdOf(r) # None
                        /\ ~(args[1].hide_system_logons /\ r = R_SystemLogon)
        IN  /\ (~args[1].all_events /\ ExplicitIds # {}) => ids \subseteq ExplicitIds
            /\ (~args[1].all_events /\ ExplicitIds = {}) => ids \subseteq DOMAIN EVENT_RULES
            /\ args[1].all_events => Len(out) = Count(raw, Stays)

C1_Witness ==
    /\ LiveRun /\ loaded[1].ok
    /\ ~args[1].all_events /\ ExplicitIds = {4625} /\ ~args[1].hide_system_logons
    /\ source[1].raw_events = <<R_SystemLogon, R_LogonFailure>>
    /\ Len(loaded[1].value) = 1 /\ loaded[1].value[1].event_id = 4625

\* C2 as stated: with hide_system_logons no 4624 event whose message contains
\* "S-1-5-18 NT AUTHORITY\SYSTEM" (case-insensitively) is in the output of collect_events.
C2_AsStated ==
    (LiveRun /\ loaded[1].ok /\ args[1].hide_system_logons) =>
        \A i \in DOMAIN loaded[1].value :
            ~ /\ loaded[1].value[i].event_id = 4624
              /\ StrContains(StrLower(loaded[1].value[i].message), StrLower(SystemAccountMessage))

\* C2 (amended): the suppressed events are the 4624 events whose message contains
\* "s-1-5-18 system nt authority" case-insensitively: none is in the output when
\* hide_system_logons is set; when it is not set such an event is in the output whenever
\* the ID filter admits 4624; events of any other id are never removed by the rule.
C2_SuppressionRule ==
    (LiveRun /\ loaded[1].ok) =>
        LET out == loaded[1].value
            raw == source[1].raw_events
            IsSystemLogon(e) ==
                /\ e.event_id = 4624
                /\ StrContains(StrLower(e.message), StrLower(SystemLogonMessage))
            OtherOut(e) == e.event_id # 4624
            OtherIn(r) == RawIdOf(r) # None /\ RawIdOf(r) # Some(4624) /\ IdAdmitted(RawIdOf(r)[1])
            SystemIn(r) == r = R_SystemLogon
        IN  /\ args[1].hide_system_logons => Count(out, IsSystemLogon) = 0
            /\ (~args[1].hide_system_logons /\ IdAdmitted(4624))
                   => Count(out, IsSystemLogon) = Count(raw, SystemIn)
            /\ Count(out, OtherOut) = Count(raw, OtherIn)

C2_Witness ==
    /\ LiveRun /\ loaded[1].ok /\ args[1].hide_system_logons /\ args[1].all_events
    /\ source[1].raw_events = <<R_SystemLogon, R_LogonFailure>>
    /\ Len(loaded[1].value) = 1 /\ loaded[1].value[1].event_id = 4625
    /\ loaded[1].value[1].message = StrLower(SystemLogonMessage)

\* C3: on the demo path a file with 4688 at T1 and a Local System 4624 at T2 < T1, run
\* with hide_system_logons, important_only and no explicit ids, gives exactly one event,
\* 4688 "Process created".
C3_DemoEndToEnd ==
    ( /\ DemoAvailable
      /\ source[1].elements = <<E_Process, E_SystemLogon>>
      /\ args[1].hide_system_logons /\ ~args[1].all_events /\ args[1].event_ids = None )
    => /\ loaded[1].ok
       /\ Len(loaded[1].value) = 1
       /\ loaded[1].value[1].event_id = 4688
       /\ loaded[1].value[1].category = "Process created"

\* C4: a record with a well-formed id and an unparseable or absent timestamp gives an
\* event at the Unix epoch, and no batch mixing such records with records whose
\* timestamps parse makes collect_events or load_events_from_demo_xml raise.
C4_TimestampFallbackNeverEscalates ==
    ( \/ LiveAvailable /\ \E i \in DOMAIN source[1].raw_events :
                              source[1].raw_events[i] = R_LogCleared
      \/ DemoAvailable /\ \E i \in DOMAIN source[1].elements :
                              source[1].elements[i] = E_LogCleared ) =>
        /\ loaded[1].ok
        /\ \A i \in DOMAIN loaded[1].built :
               loaded[1].built[i].event_id = 1102 => loaded[1].built[i].time_created = Epoch

\* C5: the returned sequence is ordered by time_created descending, and events of equal
\* time_created keep the relative order in which their records were retrieved.
C5_SortedDescendingStable ==
    (loaded # None /\ loaded[1].ok) =>
        LET out   == loaded[1].value
            built == loaded[1].built
            n     == Len(built)
        IN  /\ Len(out) = n
            /\ \E f \in [1..n -> 1..n] :
                  /\ \A i \in 1..n : out[i] = built[f[i]]
                  /\ \A i \in 1..(n - 1) :
                        \/ out[i].time_created.t > out[i + 1].time_created.t
                        \/ /\ out[i].time_created.t = out[i + 1].time_created.t
                           /\ f[i] < f[i + 1]

C5_Witness ==
    /\ LiveRun /\ loaded[1].ok /\ args[1].all_events
    /\ source[1].raw_events = <<R_AccountLogon, R_SystemLogon>>
    /\ Len(loaded[1].value) = 2
    /\ loaded[1].value[1].time_created = loaded[1].value[2].time_created
    /\ loaded[1].value[1].message = SystemAccountMessage
    /\ loaded[1].value[2].message = SystemLogonMessage

\* C6: normalize_event gives an event carrying exactly the record's id for every raw
\* record whose Id is a parseable integer and nothing, without raising, for every other
\* record; collect_events skips the dropped records and goes on with the rest.
C6_NormalizeTotal ==
    LiveAvailable =>
        LET built == loaded[1].built
            raw   == source[1].raw_events
            HasId(r) == RawIdOf(r) # None
            kept  == SelectSeq(raw, HasId)
        IN  /\ \A i \in DOMAIN built :
                  /\ \E j \in DOMAIN raw : RawIdOf(raw[j]) = Some(built[i].event_id)
                  /\ DOMAIN built[i] = {"time_created", "event_id", "level", "provider",
                                        "machine_name", "message", "category"}
            /\ (args[1].all_events /\ ~args[1].hide_system_logons) =>
                  /\ Len(built) = Len(kept)
                  /\ \A i \in DOMAIN kept : built[i].event_id = RawIdOf(kept[i])[1]

C6_Witness ==
    /\ LiveAvailable /\ args[1].all_events /\ ~args[1].hide_system_logons
    /\ source[1].raw_events = <<R_BadId, R_Process>>
    /\ loaded[1].ok /\ Len(loaded[1].value) = 1 /\ loaded[1].value[1].event_id = 4688

\* C7: when live retrieval is impossible or the demo file is missing or malformed the
\* loader raises, and main returns 1 with no level filter, export, rendering or summary.
C7_SourceFailureFatal ==
    ((LiveRun /\ ~LiveAvailable) \/ (DemoRun /\ ~DemoAvailable)) =>
        /\ ~loaded[1].ok /\ loaded[1].value = <<>>
        /\ pc = "done" /\ exit_code = Some(1) /\ events = <<>>
        /\ \A i \in DOMAIN stdout :
               stdout[i] \notin {"level_filter", "collected", "no_events", "exported",
                                 "export_failed", "render", "summary"}

C7_Witness ==
    /\ DemoRun /\ ~source[1].demo_exists
    /\ pc = "done" /\ exit_code = Some(1) /\ stdout = <<"banner", "not_found">>

\* the canonical level the synonym sets assign to a lower-case word
CanonOf(w) ==
    IF w \in {L_debug, L_verbose, L_trace} THEN L_debug
    ELSE IF w \in {L_information, L_info} THEN L_info
    ELSE IF w \in {L_warning, L_warn} THEN L_warning
    ELSE IF w \in {L_error, L_err} THEN L_error
    ELSE L_critical

\* x is the synonym w in some letter case with blanks around it
IsVariantOf(x, w) ==
    \E l \in Paddings, r \in Paddings, c \in {w, StrUpper(w), StrCapitalize(w)} : x = l \o c \o r

\* C8: filter_events_by_levels(events, parse_levels(s)) keeps exactly the events whose
\* canonical level is among the normalised tokens of s, in their original order and
\* leaving the input list as it was; when s is absent, empty or has no non-empty token,
\* parse_levels gives None and every event is returned.
C8_LevelFilterExact ==
    (lv_pc = "ret" /\ lv_in.op = "filter") =>
        LET toks    == IF lv_in.value = None THEN <<>> ELSE CsvTokens(lv_in.value[1])
            wanted  == {normalize_level_name(toks[i]) : i \in DOMAIN toks}
            Keep(e) == normalize_level_name(e.level) \in wanted
            out     == lv_out[1]
        IN  /\ out.events = lv_in.events
            /\ toks # <<>> => /\ out.levels = Some(wanted)
                              /\ out.filtered = SelectSeq(lv_in.events, Keep)
            /\ toks = <<>> => /\ out.levels = None
                              /\ out.filtered = lv_in.events

C8_Witness ==
    /\ lv_pc = "ret" /\ lv_in.op = "filter"
    /\ lv_in.value = Some(StrUpper(L_info) \o Comma \o <<" ">> \o L_warning \o Comma \o StrUpper(L_error))
    /\ Len(lv_in.events) = 2
    /\ lv_in.events[1].level = StrUpper(L_fatal)
    /\ lv_in.events[2].level = StrCapitalize(L_information)
    /\ lv_out[1].filtered = <<lv_in.events[2]>>

\* C9: normalize_level_name always returns one of debug, info, warning, error, critical;
\* every synonym in any letter case and with surrounding whitespace gives the canonical
\* level of its set, every other string gives info, and normalising the result again
\* gives the same result.
C9_NormalizeLevelTotalIdempotent ==
    (lv_in.op = "normalize" /\ lv_pc \in {"once", "ret"}) =>
        LET x   == lv_in.level
            out == lv_out[1]
        IN  /\ out.level \in CanonicalLevels
            /\ \A w \in Synonyms : IsVariantOf(x, w) => out.level = CanonOf(w)
            /\ (~ \E w \in Synonyms : IsVariantOf(x, w)) => out.level = L_info
            /\ lv_pc = "ret" => out.again = out.level

C9_Witness ==
    /\ lv_pc = "ret" /\ lv_in.op = "normalize"
    /\ lv_in.level = <<" ">> \o StrCapitalize(L_warn) \o <<" ">>
    /\ lv_out[1].level = L_warning /\ lv_out[1].again = L_warning

\* the colour the claim assigns to a canonical level
StyleOf(level) ==
    IF level = L_info THEN "bright_cyan"
    ELSE IF level = L_warning THEN "bright_yellow"
    ELSE IF level \in {L_error, L_critical} THEN "bright_red"
    ELSE "bright_magenta"

\* C10: color_for_event gives the empty style when use_color is false and otherwise the
\* style of normalize_level_name(event.level), so two events of the same canonical
\* level (the level the filter compares) get the same colour.
C10_ColorFollowsCanonicalLevel ==
    (lv_pc = "ret" /\ lv_in.op = "color") =>
        LET out == lv_out[1]
        IN  /\ ~lv_in.use_color => out.style = "" /\ out.other_style = ""
            /\ lv_in.use_color => out.style = StyleOf(normalize_level_name(lv_in.event.level))
            /\ normalize_level_name(lv_in.event.level) = normalize_level_name(lv_in.other.level)
                   => out.style = out.other_style
            /\ \A c \in CanonicalLevels :
                   (filter_events_by_levels(<<lv_in.event>>, Some({c})) # <<>>
                    /\ filter_events_by_levels(<<lv_in.other>>, Some({c})) # <<>>)
                       => out.style = out.other_style

C10_Witness ==
    /\ lv_pc = "ret" /\ lv_in.op = "color" /\ lv_in.use_color
    /\ lv_in.event.level = <<"\t">> \o L_warning
    /\ lv_in.other.level = <<" ">> \o StrUpper(L_warn) \o <<" ">>
    /\ lv_out[1].style = "bright_yellow" /\ lv_out[1].other_style = "bright_yellow"

\* C11: every event either ingestion path produces has a message without LF: each CRLF
\* or bare LF of the raw message is replaced by one space.
C11_NewlinesCollapsed ==
    (LiveAvailable \/ DemoAvailable) =>
        \A i \in DOMAIN loaded[1].built :
            ~ \E k \in DOMAIN loaded[1].built[i].message : loaded[1].built[i].message[k] = "\n"

\* the records of the first k chunks of a log, in order
RECURSIVE FirstChunks(_, _)
FirstChunks(lg, k) ==
    IF k = 0 \/ lg = <<>> THEN <<>> ELSE Head(lg) \o FirstChunks(Tail(lg), k - 1)

\* C12: get_raw_events reads only while fewer than max_events records have been taken,
\* stops in the middle of a chunk or at the first empty chunk, and returns the first
\* min(max_events, available) records; collect_events then returns at most max_events events.
C12_RetrievalBounded ==
    (rd.pc \in {"loop", "break", "returned", "collected"}) =>
        LET all == FirstChunks(rd.log, Len(rd.log))
            n   == IF Len(all) < rd.max_events THEN Len(all) ELSE rd.max_events
        IN  /\ Len(rd.events) <= rd.max_events
            /\ rd.read_total = Len(rd.events)
            /\ \A i \in DOMAIN rd.events :
                   rd.events[i] = RawOfRecord(all[i], rd.tz_aware)
            /\ rd.reads >= 1 => Len(FirstChunks(rd.log, rd.reads - 1)) < rd.max_events
            /\ rd.reads <= Len(rd.log) + 1
            /\ rd.pc \in {"break", "returned", "collected"} =>
                  /\ Len(rd.events) = n
                  /\ Len(rd.events) = rd.max_events \/ rd.reads = Len(rd.log) + 1
                  /\ rd.pc # "break" => ~rd.handle_open
            /\ rd.pc = "collected" =>
                  /\ rd.out[1].ok
                  /\ Len(rd.out[1].value) <= rd.max_events

C12_Witness ==
    /\ rd.pc = "collected" /\ rd.max_events = 3
    /\ Len(rd.log) = 2 /\ Len(rd.log[1]) = 2 /\ Len(rd.log[2]) = 2
    /\ Len(rd.events) = 3 /\ rd.reads = 2
    /\ Len(rd.out[1].value) = 3

\* C13: parse_event_ids drops the tokens that are no integers and gives None when none
\* is left, never an empty list; with important_only an --event-ids string of only
\* invalid or empty tokens leaves the Rule Table key set as the filter.
C13_IdFilterNeverEmpty ==
    (pc # "start") =>
        /\ event_ids # Some(<<>>)
        /\ args[1].event_ids \in {None, Some(<<"x",","," ",",">>)} => event_ids = None
        /\ args[1].event_ids = Some(<<"4","6","2","5",",","x">>) => event_ids = Some(<<4625>>)
        /\ ( /\ LiveRun /\ loaded[1].ok /\ ~args[1].all_events
             /\ args[1].event_ids = Some(<<"x",","," ",",">>) ) =>
               LET InTable(r) == /\ RawIdOf(r) # None
                                 /\ RawIdOf(r)[1] \in DOMAIN EVENT_RULES
                                 /\ ~(args[1].hide_system_logons /\ r = R_SystemLogon)
               IN  Len(loaded[1].value) = Count(source[1].raw_events, InTable)

C13_Witness ==
    /\ LiveRun /\ loaded[1].ok /\ ~args[1].all_events
    /\ args[1].event_ids = Some(<<"x",","," ",",">>) /\ event_ids = None
    /\ source[1].raw_events = <<R_LogonFailure, R_LogCleared>>
    /\ Len(loaded[1].value) = 1 /\ loaded[1].value[1].event_id = 4625

Range(s) == {s[i] : i \in DOMAIN s}

\* the tags of `tags` that main() printed, in the order it printed them
Printed(tags) == SelectSeq(stdout, LAMBDA t : t \in tags)

\* C14: once the loader has returned events, main calls the level filter, the CSV
\* export, the renderer and the summary in that order; export, renderer and summary
\* all get the level-filtered events; a failed export is reported, does not stop the
\* run, and main returns exit code 0.
C14_ExportFailureNotFatal ==
    (loaded # None /\ loaded[1].ok) =>
        LET Wanted(e) == args[1].levels = None \/ e.level = M_Warning
            filtered  == SelectSeq(loaded[1].value, Wanted)
            order     == <<"filter_events_by_levels", "export_events_if_requested",
                           "render_events_if_requested", "print_summary">>
            asked     == args[1].csv_output # None /\ args[1].csv_output[1] # <<>>
            steps     == Printed({"level_filter", "exported", "export_failed",
                                  "render", "summary"})
        IN  /\ Len(calls) <= 4
            /\ \A i \in DOMAIN calls :
                  /\ calls[i].fn = order[i]
                  /\ calls[i].events = IF i = 1 THEN loaded[1].value ELSE filtered
            /\ Len(calls) >= 1 => events = filtered
            /\ pc \in {"filter", "export", "render", "summary", "done"}
            /\ pc = "filter" <=> Len(calls) = 0
            /\ pc = "export" <=> Len(calls) = 1
            /\ pc = "render" <=> Len(calls) = 2
            /\ pc = "summary" <=> Len(calls) = 3
            /\ pc = "done" <=>  Len(calls) = 4
            /\ pc = "done" =>
                  /\ exit_code = Some(0)
                  /\ steps = <<"level_filter">>
                             \o (IF ~asked THEN <<>>
                                 ELSE IF "export_failed" \in Range(stdout)
                                      THEN <<"export_failed">> ELSE <<"exported">>)
                             \o (IF ~args[1].no_ui /\ filtered # <<>> THEN <<"render">> ELSE <<>>)
                             \o (IF filtered # <<>> THEN <<"summary">> ELSE <<>>)
                  /\ ~("not_found" \in Range(stdout) \/ "collect_error" \in Range(stdout))

C14_Witness ==
    /\ pc = "done" /\ loaded # None /\ loaded[1].ok
    /\ args[1].levels = Some(L_warn) /\ ~args[1].no_ui
    /\ Len(loaded[1].value) = 2 /\ Len(events) = 1
    /\ Printed({"level_filter", "exported", "export_failed", "render", "summary"})
           = <<"level_filter", "export_failed", "render", "summary">>
    /\ calls[3].events = events /\ calls[4].events = events
    /\ exit_code = Some(0)

====
